---- MODULE Spec2Model ----
(***************************************************************************)
(* The lesson player of js-learning-platform (component App).              *)
(*                                                                         *)
(* State: the component's useState cells, localStorage, the two message    *)
(* queues between the page and the runner frame, and the position of the   *)
(* two fetch promise chains.  One action per event handler or callback.    *)
(*                                                                         *)
(* Texts.  Editor texts are atoms; what a text does when it is executed    *)
(* (CodeBehaviour, AssertionOutcome, ValidationOutcome) is the host        *)
(* runtime's evaluation of it.  Displayed texts (result, error payloads)   *)
(* are sequences of fragments whose concatenation is the string; the       *)
(* fragment "Success" is the only one that contains the substring          *)
(* 'Success', so String.includes('Success') is Includes(text, "Success").  *)
(*                                                                         *)
(* Scheduling.  A handler's setState calls take effect in the step of the  *)
(* handler; the passive effects of the resulting render (load code, save   *)
(* code) run in the following CommitEffects step(s).  User events are      *)
(* taken when no effect is pending (React flushes the passive effects of   *)
(* a render before it handles the next discrete event) and not between     *)
(* the callbacks of one promise chain (they are consecutive microtasks).   *)
(* Messages and fetch completions are tasks of their own and may arrive    *)
(* at any time.                                                            *)
(*                                                                         *)
(* History variables (read by no handler): lastOp, typed, fetchOutcome.    *)
(*                                                                         *)
(* Appearance.  The theme and the two pane widths are read and written by  *)
(* handlers and effects of their own, which touch nothing of the lesson    *)
(* state, and no lesson handler touches them.  Spec is the lesson player   *)
(* with the appearance settled at its defaults; UiSpec is the appearance   *)
(* over page loads, with the lessons fetch and its effects (the splitters  *)
(* exist in the lesson view only).  Widths are whole percents.             *)
(***************************************************************************)
EXTENDS Integers, Sequences, FiniteSets, TLC

VARIABLES
    lessons,             \* useState<Lesson[]>([])
    currentLessonIndex,  \* useState(0), 0-based
    code,                \* useState('')
    result,              \* useState('')
    testResult,          \* useState<TestRunResult | null>(null): <<>> or <<payload>>
    loading,             \* useState(true)
    error,               \* useState<string | null>(null)
    showHint,            \* useState(false)
    glossary,            \* useState([])
    storage,             \* localStorage: key -> text, or Null when the key is absent
    toFrame,             \* messages posted to the runner frame, not yet handled
    toParent,            \* messages posted to the page by the frame, not yet handled
    fetchPc,             \* lessons fetch chain: "pending", "finally", "done"
    glossaryPc,          \* glossary fetch chain: "pending", "done"
    depsChanged,         \* [load |-> deps of the load effect changed, save |-> same, save effect]
    lastOp,              \* history: last user operation on the code, [op, saved]: op is
                         \* "none", "edit", "reset" or "nav" (to another lesson); saved is
                         \* the stored entry of the lesson navigated to, as it was then
    typed,               \* history: lesson index -> last text typed there (Null: none since reset)
    fetchOutcome,        \* history: how the lessons fetch ended
    theme,               \* useState<'dark' | 'light'>(initialiser)
    lessonWidthPct,      \* useState<number>(initialiser), percent
    previewWidthPct,     \* useState<number>(initialiser), percent
    uiDepsChanged        \* [theme, lessonWidth, previewWidth]: deps of that effect changed

vars == <<lessons, currentLessonIndex, code, result, testResult, loading, error,
          showHint, glossary, storage, toFrame, toParent, fetchPc, glossaryPc,
          depsChanged, lastOp, typed, fetchOutcome, theme, lessonWidthPct,
          previewWidthPct, uiDepsChanged>>

\* The appearance state (theme and pane widths) and the rest of the component
\* state; localStorage belongs to both.
uiVars == <<theme, lessonWidthPct, previewWidthPct, uiDepsChanged>>

lessonVars == <<lessons, currentLessonIndex, code, result, testResult, loading,
                error, showHint, glossary, toFrame, toParent, fetchPc, glossaryPc,
                depsChanged, lastOp, typed, fetchOutcome>>

\* ------------------------------------------------------------------ bounds

\* Messages in flight (both queues together) at any time.
MaxInFlight == 1

\* The travel of the pointer in one mouse move of a splitter drag, in percent
\* of the container width, either way.
MaxDeltaPct == 4

\* ------------------------------------------------------------------ data

\* null / a missing localStorage key
Null == "<null>"

\* Texts the user types into the editor.
TypedTexts == {"", "good", "throwS", "throwNull"}

\* lessons.json: a lesson with tests (and a validation), one with a validation
\* only and an empty starter, one with neither; the file is empty, holds the
\* first two, or the third.
LessonA == [id |-> "a", initialCode |-> "starter", hasValidation |-> TRUE,
            validation |-> "val",
            tests |-> <<[name |-> "t1", assertion |-> "chk1"],
                        [name |-> "t2", assertion |-> "chk2"]>>]

LessonB == [id |-> "b", initialCode |-> "", hasValidation |-> TRUE,
            validation |-> "val", tests |-> <<>>]

LessonC == [id |-> "c", initialCode |-> "starter", hasValidation |-> FALSE,
            validation |-> "", tests |-> <<>>]

LessonFiles == {<<>>, <<LessonA, LessonB>>, <<LessonC>>}

GlossaryFile == <<"term">>

\* `code-lesson-${id}`
CodeKey(lesson) == "code-lesson-" \o lesson.id

StorageKeys == {CodeKey(LessonA), CodeKey(LessonB), CodeKey(LessonC)}

\* The keys of the appearance settings.
UiKeys == {"ui-theme", "ui-lesson-width", "ui-preview-width"}

\* The limits of a pane width, the default width and the two keyboard steps.
MinWidthPct == 15

MaxWidthPct == 45

DefaultWidthPct == 26

Step == 2

ShiftStep == 5

\* String(n) of a whole number of percent
StringOf(n) == ToString(n)

\* Number(text) of a decimal numeral
NumberOf(text) == CHOOSE n \in 0..100 : ToString(n) = text

\* Mutant of Clamp: Math.max(15, v), without the upper limit.
ClampLowerOnly(v) == IF v < MinWidthPct THEN MinWidthPct ELSE v

\* Math.min(45, Math.max(15, v))
Clamp(v) ==
    LET raised == IF v < MinWidthPct THEN MinWidthPct ELSE v
    IN  IF raised > MaxWidthPct THEN MaxWidthPct ELSE raised

\* lessons[i], i 0-based
LessonAt(i) == lessons[i + 1]

\* JavaScript truthiness of a string-or-null
Truthy(text) == text # Null /\ text # ""

FailedToLoad == <<"Failed to load lessons. Check the browser console for more details.">>

NoError == <<>>

SuccessText == <<"Success", "! Correct!">>

KeepTryingText == <<"Keep trying! The validation failed.">>

ResetText == <<"Code has been reset.">>

ErrorPrefix == <<"Error: ">>

\* String.prototype.includes, on fragments
Includes(text, fragment) == \E i \in DOMAIN text : text[i] = fragment

\* ------------------------------------------------------------------ view

\* Mutant of View: the empty-list check placed before the error check.
ViewEmptyCheckFirst ==
    IF loading THEN "loading"
    ELSE IF Len(lessons) = 0 THEN "empty"
    ELSE IF error # NoError THEN "error"
    ELSE "lesson"

\* The early returns of the render function.
View ==
    IF loading THEN "loading"
    ELSE IF error # NoError THEN "error"
    ELSE IF Len(lessons) = 0 THEN "empty"
    ELSE "lesson"

\* document.getElementById('preview') and its contentWindow: the frame is
\* rendered with the lesson only.
FramePresent == View = "lesson"

\* data-status of the result box
ResultStatus ==
    IF Includes(result, "Success") THEN "success"
    ELSE IF result # <<>> THEN "failure"
    ELSE ""

\* class of the test result box; "" when it is not rendered
TestResultStatus ==
    IF testResult = <<>> THEN ""
    ELSE IF testResult[1].passCount = testResult[1].totalCount THEN "success"
    ELSE "failure"

EffectsSettled == ~depsChanged.load /\ ~depsChanged.save

\* A user event can be handled.
Interactive == EffectsSettled /\ fetchPc # "finally"

\* ------------------------------------------------------------------ init

\* Mutant of InitialTheme: the stored value is not consulted.
InitialThemeBySystem(stored, prefersDark) ==
    IF prefersDark THEN "dark" ELSE "light"

\* The initialiser of theme: a stored 'light' or 'dark', else the system
\* colour scheme.
InitialTheme(stored, prefersDark) ==
    IF stored = "light" \/ stored = "dark" THEN stored
    ELSE IF prefersDark THEN "dark" ELSE "light"

\* The initialiser of a pane width: stored ? Number(stored) : 26
InitialWidth(stored) ==
    IF Truthy(stored) THEN NumberOf(stored) ELSE DefaultWidthPct

\* The useState cells other than the appearance settings, the queues and the
\* fetch chains when the component is constructed.
LessonInit ==
    /\ lessons = <<>>
    /\ currentLessonIndex = 0
    /\ code = ""
    /\ result = <<>>
    /\ testResult = <<>>
    /\ loading = TRUE
    /\ error = NoError
    /\ showHint = FALSE
    /\ glossary = <<>>
    /\ toFrame = <<>>
    /\ toParent = <<>>
    /\ fetchPc = "pending"
    /\ glossaryPc = "pending"
    /\ depsChanged = [load |-> FALSE, save |-> FALSE]
    /\ lastOp = [op |-> "none", saved |-> Null]
    /\ typed = [i \in 0..1 |-> Null]
    /\ fetchOutcome = "none"

\* The appearance settings as constructed from the storage, with their three
\* effects pending.
UiConstructed(prefersDark) ==
    /\ theme = InitialTheme(storage["ui-theme"], prefersDark)
    /\ lessonWidthPct = InitialWidth(storage["ui-lesson-width"])
    /\ previewWidthPct = InitialWidth(storage["ui-preview-width"])
    /\ uiDepsChanged = [theme |-> TRUE, lessonWidth |-> TRUE, previewWidth |-> TRUE]

\* The lesson player started with no code stored and the appearance settled at
\* the dark theme and the default widths; no action of Next changes the
\* appearance.
Init ==
    /\ LessonInit
    /\ storage = [k \in StorageKeys \cup UiKeys |->
                     IF k \in StorageKeys THEN Null
                     ELSE IF k = "ui-theme" THEN "dark"
                     ELSE StringOf(DefaultWidthPct)]
    /\ theme = "dark"
    /\ lessonWidthPct = DefaultWidthPct
    /\ previewWidthPct = DefaultWidthPct
    /\ uiDepsChanged = [theme |-> FALSE, lessonWidth |-> FALSE, previewWidth |-> FALSE]

\* The effects of the first render have run.  The two fetches are issued by
\* effects of that render, in the same flush as the three appearance effects,
\* so their callbacks run after it.
Mounted ==
    ~(uiDepsChanged.theme /\ uiDepsChanged.lessonWidth /\ uiDepsChanged.previewWidth)

\* ------------------------------------------------------------------ fetches

\* fetch(lessons.json).then(res => ...).then(data => setLessons(data)).catch(...)
FetchLessonsSettle ==
    /\ UNCHANGED uiVars
    /\ Mounted
    /\ fetchPc = "pending"
    /\ \E outcome \in {"ok", "notOk", "rejected", "badJson"} :
        /\ fetchOutcome' = outcome
        /\ IF outcome = "ok"
           THEN \E data \in LessonFiles :
                    /\ lessons' = data
                    /\ depsChanged' = [load |-> TRUE, save |-> TRUE]
                    /\ error' = error
           ELSE /\ error' = FailedToLoad
                /\ UNCHANGED <<lessons, depsChanged>>
    /\ fetchPc' = "finally"
    /\ UNCHANGED <<currentLessonIndex, code, result, testResult, loading, showHint,
                   glossary, storage, toFrame, toParent, glossaryPc, lastOp, typed>>

\* Mutant of FetchLessonsFinally: the chain ends without setLoading(false).
FetchLessonsFinallyKeepsLoading ==
    /\ UNCHANGED uiVars
    /\ fetchPc = "finally"
    /\ fetchPc' = "done"
    /\ UNCHANGED <<lessons, currentLessonIndex, code, result, testResult, loading,
                   error, showHint, glossary, storage, toFrame, toParent, glossaryPc,
                   depsChanged, lastOp, typed, fetchOutcome>>

\* .finally(() => setLoading(false))
FetchLessonsFinally ==
    /\ UNCHANGED uiVars
    /\ fetchPc = "finally"
    /\ loading' = FALSE
    /\ fetchPc' = "done"
    /\ UNCHANGED <<lessons, currentLessonIndex, code, result, testResult, error,
                   showHint, glossary, storage, toFrame, toParent, glossaryPc,
                   depsChanged, lastOp, typed, fetchOutcome>>

\* fetch(glossary.json).then(res => res.ok ? res.json() : []).then(setGlossary)
\*   .catch(() => setGlossary([]))
FetchGlossarySettle ==
    /\ UNCHANGED uiVars
    /\ Mounted
    /\ glossaryPc = "pending"
    /\ \E outcome \in {"ok", "notOk", "rejected"} :
        glossary' = IF outcome = "ok" THEN GlossaryFile ELSE <<>>
    /\ glossaryPc' = "done"
    /\ UNCHANGED <<lessons, currentLessonIndex, code, result, testResult, loading,
                   error, showHint, storage, toFrame, toParent, fetchPc, depsChanged,
                   lastOp, typed, fetchOutcome>>

\* ------------------------------------------------------------------ effects

\* savedCode || lessons[currentLessonIndex].initialCode
LoadedCode(savedCode, lesson) ==
    IF Truthy(savedCode) THEN savedCode ELSE lesson.initialCode

\* The passive effects of one render, in declaration order: the load effect
\* (deps currentLessonIndex, lessons) reads the entry and calls setCode; the
\* save effect (deps code, currentLessonIndex, lessons) writes the code of this
\* render.  The setCode of the load effect gives the next render, whose save
\* effect is then pending when the code changed.
CommitEffects ==
    /\ UNCHANGED uiVars
    /\ ~EffectsSettled
    /\ IF Len(lessons) > 0
       THEN LET lesson == LessonAt(currentLessonIndex)
                key == CodeKey(lesson)
                next == IF depsChanged.load
                        THEN LoadedCode(storage[key], lesson)
                        ELSE code
            IN  /\ storage' = [storage EXCEPT ![key] = code]
                /\ code' = next
                /\ depsChanged' = [load |-> FALSE, save |-> next # code]
       ELSE /\ depsChanged' = [load |-> FALSE, save |-> FALSE]
            /\ UNCHANGED <<storage, code>>
    /\ UNCHANGED <<lessons, currentLessonIndex, result, testResult, loading, error,
                   showHint, glossary, toFrame, toParent, fetchPc, glossaryPc, lastOp,
                   typed, fetchOutcome>>

\* ------------------------------------------------------------------ editor

\* Mutant of handleCodeChange: the save effect does not depend on code, so an
\* edit leaves no effect pending.
handleCodeChangeNoSave ==
    /\ UNCHANGED uiVars
    /\ Interactive
    /\ View = "lesson"
    /\ \E value \in TypedTexts :
        /\ value # code
        /\ code' = value
        /\ typed' = [typed EXCEPT ![currentLessonIndex] = value]
    /\ depsChanged' = [load |-> FALSE, save |-> FALSE]
    /\ lastOp' = [op |-> "edit", saved |-> Null]
    /\ UNCHANGED <<lessons, currentLessonIndex, result, testResult, loading, error,
                   showHint, glossary, storage, toFrame, toParent, fetchPc, glossaryPc, fetchOutcome>>

\* handleCodeChange: the editor reports a changed document.
handleCodeChange ==
    /\ UNCHANGED uiVars
    /\ Interactive
    /\ View = "lesson"
    /\ \E value \in TypedTexts :
        /\ value # code
        /\ code' = value
        /\ typed' = [typed EXCEPT ![currentLessonIndex] = value]
    /\ depsChanged' = [load |-> FALSE, save |-> TRUE]
    /\ lastOp' = [op |-> "edit", saved |-> Null]
    /\ UNCHANGED <<lessons, currentLessonIndex, result, testResult, loading, error,
                   showHint, glossary, storage, toFrame, toParent, fetchPc, glossaryPc, fetchOutcome>>

\* ------------------------------------------------------------------ navigation

\* Mutant of NavigateTo: the handlers as they were before test results
\* existed, without setTestResult(null).
NavigateToKeepsTestResult(newIndex) ==
    /\ currentLessonIndex' = newIndex
    /\ result' = <<>>
    /\ showHint' = FALSE
    /\ depsChanged' = [load |-> newIndex # currentLessonIndex,
                       save |-> newIndex # currentLessonIndex]
    /\ lastOp' = IF newIndex = currentLessonIndex THEN lastOp
                  ELSE [op |-> "nav", saved |-> storage[CodeKey(lessons[newIndex + 1])]]
    /\ UNCHANGED <<lessons, code, testResult, loading, error, glossary, storage,
                   toFrame, toParent, fetchPc, glossaryPc, typed, fetchOutcome>>

\* The state changes shared by the three navigation handlers.
NavigateTo(newIndex) ==
    /\ currentLessonIndex' = newIndex
    /\ result' = <<>>
    /\ testResult' = <<>>
    /\ showHint' = FALSE
    /\ depsChanged' = [load |-> newIndex # currentLessonIndex,
                       save |-> newIndex # currentLessonIndex]
    /\ lastOp' = IF newIndex = currentLessonIndex THEN lastOp
                  ELSE [op |-> "nav", saved |-> storage[CodeKey(lessons[newIndex + 1])]]
    /\ UNCHANGED <<lessons, code, loading, error, glossary, storage, toFrame,
                   toParent, fetchPc, glossaryPc, typed, fetchOutcome>>

\* Mutant of goToNextLesson: the handler without its guard.
goToNextLessonUnguarded ==
    /\ UNCHANGED uiVars
    /\ Interactive
    /\ currentLessonIndex' = currentLessonIndex + 1
    /\ result' = <<>>
    /\ testResult' = <<>>
    /\ showHint' = FALSE
    /\ depsChanged' = [load |-> TRUE, save |-> TRUE]
    /\ lastOp' = [op |-> "nav", saved |-> Null]
    /\ UNCHANGED <<lessons, code, loading, error, glossary, storage, toFrame,
                   toParent, fetchPc, glossaryPc, typed, fetchOutcome>>

\* goToNextLesson: the Next button, or Alt+ArrowRight in any view.
goToNextLesson ==
    /\ UNCHANGED uiVars
    /\ Interactive
    /\ IF currentLessonIndex < Len(lessons) - 1
       THEN NavigateTo(currentLessonIndex + 1)
       ELSE UNCHANGED vars

\* goToPreviousLesson: the Previous button, or Alt+ArrowLeft in any view.
goToPreviousLesson ==
    /\ UNCHANGED uiVars
    /\ Interactive
    /\ IF currentLessonIndex > 0
       THEN NavigateTo(currentLessonIndex - 1)
       ELSE UNCHANGED vars

\* handleLessonSelect: the dropdown offers one option per lesson.
handleLessonSelect ==
    /\ UNCHANGED uiVars
    /\ Interactive
    /\ View = "lesson"
    /\ \E newIndex \in 0..(Len(lessons) - 1) : NavigateTo(newIndex)

\* ------------------------------------------------------------------ reset, hint

\* Mutant of handleResetCode: localStorage.clear() for removeItem(key).
handleResetCodeClearsAll ==
    /\ UNCHANGED uiVars
    /\ Interactive
    /\ IF Len(lessons) > 0
       THEN LET currentLesson == LessonAt(currentLessonIndex) IN
            /\ storage' = [k \in DOMAIN storage |-> Null]
            /\ code' = currentLesson.initialCode
            /\ depsChanged' = [load |-> FALSE, save |-> currentLesson.initialCode # code]
            /\ result' = ResetText
            /\ testResult' = <<>>
            /\ lastOp' = [op |-> "reset", saved |-> Null]
            /\ typed' = [typed EXCEPT ![currentLessonIndex] = Null]
            /\ UNCHANGED <<lessons, currentLessonIndex, loading, error, showHint,
                           glossary, toFrame, toParent, fetchPc, glossaryPc, fetchOutcome>>
       ELSE UNCHANGED vars

\* handleResetCode: the Reset Code button; the handler guards itself.
handleResetCode ==
    /\ UNCHANGED uiVars
    /\ Interactive
    /\ IF Len(lessons) > 0
       THEN LET currentLesson == LessonAt(currentLessonIndex) IN
            /\ storage' = [storage EXCEPT ![CodeKey(currentLesson)] = Null]
            /\ code' = currentLesson.initialCode
            /\ depsChanged' = [load |-> FALSE, save |-> currentLesson.initialCode # code]
            /\ result' = ResetText
            /\ testResult' = <<>>
            /\ lastOp' = [op |-> "reset", saved |-> Null]
            /\ typed' = [typed EXCEPT ![currentLessonIndex] = Null]
            /\ UNCHANGED <<lessons, currentLessonIndex, loading, error, showHint,
                           glossary, toFrame, toParent, fetchPc, glossaryPc, fetchOutcome>>
       ELSE UNCHANGED vars

\* Mutant of toggleHint: the click also clears the result, as a navigation does.
toggleHintClearsResult ==
    /\ UNCHANGED uiVars
    /\ Interactive
    /\ View = "lesson"
    /\ showHint' = ~showHint
    /\ result' = <<>>
    /\ UNCHANGED <<lessons, currentLessonIndex, code, testResult, loading, error,
                   glossary, storage, toFrame, toParent, fetchPc, glossaryPc,
                   depsChanged, lastOp, typed, fetchOutcome>>

\* onClick={() => setShowHint(!showHint)}
toggleHint ==
    /\ UNCHANGED uiVars
    /\ Interactive
    /\ View = "lesson"
    /\ showHint' = ~showHint
    /\ UNCHANGED <<lessons, currentLessonIndex, code, result, testResult, loading,
                   error, glossary, storage, toFrame, toParent, fetchPc, glossaryPc,
                   depsChanged, lastOp, typed, fetchOutcome>>

\* ------------------------------------------------------------------ running code

\* What the user code does when the frame evaluates it: it completes, or it
\* throws a value.
CodeBehaviour(userCode) ==
    CASE userCode = "throwS"    -> [kind |-> "throw", isNull |-> FALSE, message |-> <<"Success">>]
      [] userCode = "throwNull" -> [kind |-> "throw", isNull |-> TRUE, message |-> <<>>]
      [] OTHER                  -> [kind |-> "return", isNull |-> FALSE, message |-> <<>>]

\* What a test assertion returns after the user code ran.
AssertionOutcome(assertion, userCode) ==
    CASE userCode = "good"    -> [kind |-> "truthy", message |-> <<>>]
      [] userCode = "starter" -> IF assertion = "chk1"
                                 THEN [kind |-> "truthy", message |-> <<>>]
                                 ELSE [kind |-> "falsy", message |-> <<>>]
      [] OTHER                -> [kind |-> "throw", message |-> <<"answer is not defined">>]

\* What the validation expression returns after the user code ran.
ValidationOutcome(validation, userCode) ==
    CASE userCode = "good" -> [kind |-> "truthy", message |-> <<>>]
      [] userCode = ""     -> [kind |-> "throw", message |-> <<"answer is not defined">>]
      [] OTHER             -> [kind |-> "falsy", message |-> <<>>]

ResultMessage(text) ==
    [type |-> "result", text |-> text, payload |-> <<>>]

TestResultsMessage(payload) ==
    [type |-> "testResults", text |-> <<>>, payload |-> <<payload>>]

\* Mutant of TestLoop: the count is taken on the negated condition,
\* if (!passed) passCount += 1.
RECURSIVE TestLoopCountsFailures(_, _, _, _)
TestLoopCountsFailures(tests, userCode, details, passCount) ==
    IF tests = <<>>
    THEN [passCount |-> passCount, details |-> details]
    ELSE LET t == Head(tests)
             outcome == AssertionOutcome(t.assertion, userCode)
         IN  IF outcome.kind = "throw"
             THEN TestLoopCountsFailures(Tail(tests), userCode,
                           Append(details, [name |-> t.name, passed |-> FALSE,
                                            error |-> outcome.message]),
                           passCount)
             ELSE TestLoopCountsFailures(Tail(tests), userCode,
                           Append(details, [name |-> t.name,
                                            passed |-> outcome.kind = "truthy",
                                            error |-> <<>>]),
                           IF outcome.kind = "truthy" THEN passCount ELSE passCount + 1)

\* Mutant of TestLoop: the try encloses the loop, so the first assertion that
\* throws is recorded and ends it.
RECURSIVE TestLoopStopsAtThrow(_, _, _, _)
TestLoopStopsAtThrow(tests, userCode, details, passCount) ==
    IF tests = <<>>
    THEN [passCount |-> passCount, details |-> details]
    ELSE LET t == Head(tests)
             outcome == AssertionOutcome(t.assertion, userCode)
         IN  IF outcome.kind = "throw"
             THEN [passCount |-> passCount,
                   details |-> Append(details, [name |-> t.name, passed |-> FALSE,
                                                error |-> outcome.message])]
             ELSE TestLoopStopsAtThrow(Tail(tests), userCode,
                           Append(details, [name |-> t.name,
                                            passed |-> outcome.kind = "truthy",
                                            error |-> <<>>]),
                           IF outcome.kind = "truthy" THEN passCount + 1 ELSE passCount)

\* for (const t of tests) { try { passed = t.fn(); if (passed) passCount += 1;
\* details.push(...) } catch (err) { details.push({..., passed: false, error}) } }
RECURSIVE TestLoop(_, _, _, _)
TestLoop(tests, userCode, details, passCount) ==
    IF tests = <<>>
    THEN [passCount |-> passCount, details |-> details]
    ELSE LET t == Head(tests)
             outcome == AssertionOutcome(t.assertion, userCode)
         IN  IF outcome.kind = "throw"
             THEN TestLoop(Tail(tests), userCode,
                           Append(details, [name |-> t.name, passed |-> FALSE,
                                            error |-> outcome.message]),
                           passCount)
             ELSE TestLoop(Tail(tests), userCode,
                           Append(details, [name |-> t.name,
                                            passed |-> outcome.kind = "truthy",
                                            error |-> <<>>]),
                           IF outcome.kind = "truthy" THEN passCount + 1 ELSE passCount)

\* The catch block of fullScript: 'Error: ' + e.message.  Reading .message of
\* null throws in the catch block itself, and nothing is posted.
CatchBlock(isNull, message) ==
    IF isNull THEN <<>> ELSE <<ResultMessage(ErrorPrefix \o message)>>

\* Mutant of FullScript: the validation expression is evaluated before the
\* branch on hasTests.
FullScriptValidatesFirst(script) ==
    LET behaviour == CodeBehaviour(script.code)
        outcome == IF script.hasValidation
                   THEN ValidationOutcome(script.validation, script.code)
                   ELSE [kind |-> "falsy", message |-> <<>>]
    IN  IF behaviour.kind = "throw"
        THEN CatchBlock(behaviour.isNull, behaviour.message)
        ELSE IF outcome.kind = "throw"
        THEN CatchBlock(FALSE, outcome.message)
        ELSE IF script.hasTests
        THEN LET loop == TestLoop(script.tests, script.code, <<>>, 0) IN
             <<TestResultsMessage([passCount |-> loop.passCount,
                                   totalCount |-> Len(script.tests),
                                   details |-> loop.details])>>
        ELSE <<ResultMessage(IF outcome.kind = "truthy"
                             THEN SuccessText ELSE KeepTryingText)>>

\* The messages fullScript posts to the page when it is evaluated.
FullScript(script) ==
    LET behaviour == CodeBehaviour(script.code) IN
    IF behaviour.kind = "throw"
    THEN CatchBlock(behaviour.isNull, behaviour.message)
    ELSE IF script.hasTests
    THEN LET loop == TestLoop(script.tests, script.code, <<>>, 0) IN
         <<TestResultsMessage([passCount |-> loop.passCount,
                               totalCount |-> Len(script.tests),
                               details |-> loop.details])>>
    ELSE LET outcome == IF script.hasValidation
                        THEN ValidationOutcome(script.validation, script.code)
                        ELSE [kind |-> "falsy", message |-> <<>>]
         IN  IF outcome.kind = "throw"
             THEN CatchBlock(FALSE, outcome.message)
             ELSE <<ResultMessage(IF outcome.kind = "truthy"
                                  THEN SuccessText ELSE KeepTryingText)>>

\* The { script: fullScript } message handleRunCode builds from the code and
\* the current lesson.
ScriptMessage(userCode, lesson) ==
    [code |-> userCode,
     hasTests |-> Len(lesson.tests) > 0,
     tests |-> lesson.tests,
     hasValidation |-> lesson.hasValidation,
     validation |-> lesson.validation]

\* iframe.contentWindow.postMessage({ script: fullScript }, '*')
PostToFrame(queue, message) == Append(queue, message)

\* handleRunCode: the Run Code button, or Ctrl/Cmd+Enter in any view.
handleRunCode ==
    /\ UNCHANGED uiVars
    /\ Interactive
    /\ IF FramePresent
       THEN /\ Len(toFrame) + Len(toParent) < MaxInFlight
            /\ toFrame' = PostToFrame(toFrame,
                              ScriptMessage(code, LessonAt(currentLessonIndex)))
            /\ UNCHANGED <<lessons, currentLessonIndex, code, result, testResult,
                           loading, error, showHint, glossary, storage, toParent,
                           fetchPc, glossaryPc, depsChanged, lastOp, typed, fetchOutcome>>
       ELSE UNCHANGED vars

\* The runner frame takes a script message and evaluates the script.
frameRunScript ==
    /\ UNCHANGED uiVars
    /\ toFrame # <<>>
    /\ toParent' = toParent \o FullScript(Head(toFrame))
    /\ toFrame' = Tail(toFrame)
    /\ UNCHANGED <<lessons, currentLessonIndex, code, result, testResult, loading,
                   error, showHint, glossary, storage, fetchPc, glossaryPc,
                   depsChanged, lastOp, typed, fetchOutcome>>

\* Mutant of MessageEffect: test results are dropped when the current lesson
\* has no tests.
MessageEffectChecksLesson(data, oldResult, oldTestResult) ==
    IF data.type = "result"
    THEN <<data.text, <<>>>>
    ELSE IF /\ data.type = "testResults"
            /\ data.payload # <<>>
            /\ Len(LessonAt(currentLessonIndex).tests) > 0
    THEN <<<<>>, data.payload>>
    ELSE <<oldResult, oldTestResult>>

\* Mutant of MessageEffect: a result message sets the text without
\* setTestResult(null).
MessageEffectKeepsTestResult(data, oldResult, oldTestResult) ==
    IF data.type = "result"
    THEN <<data.text, oldTestResult>>
    ELSE IF data.type = "testResults" /\ data.payload # <<>>
    THEN <<<<>>, data.payload>>
    ELSE <<oldResult, oldTestResult>>

\* The state a message leaves in result and testResult: <<result, testResult>>.
MessageEffect(data, oldResult, oldTestResult) ==
    IF data.type = "result"
    THEN <<data.text, <<>>>>
    ELSE IF data.type = "testResults" /\ data.payload # <<>>
    THEN <<<<>>, data.payload>>
    ELSE <<oldResult, oldTestResult>>

\* handleMessage: the page's 'message' listener.
handleMessage ==
    /\ UNCHANGED uiVars
    /\ toParent # <<>>
    /\ LET data == Head(toParent)
           effect == MessageEffect(data, result, testResult)
       IN  /\ result' = effect[1]
           /\ testResult' = effect[2]
    /\ toParent' = Tail(toParent)
    /\ UNCHANGED <<lessons, currentLessonIndex, code, loading, error, showHint,
                   glossary, storage, toFrame, fetchPc, glossaryPc, depsChanged,
                   lastOp, typed, fetchOutcome>>

\* ------------------------------------------------------------------ appearance

UiSettled ==
    ~uiDepsChanged.theme /\ ~uiDepsChanged.lessonWidth /\ ~uiDepsChanged.previewWidth

\* The three effects that persist the appearance: each writes its key when
\* its dependency changed in the render (and on mount).
CommitUiEffects ==
    /\ ~UiSettled
    /\ storage' = [k \in DOMAIN storage |->
                      IF k = "ui-theme" /\ uiDepsChanged.theme THEN theme
                      ELSE IF k = "ui-lesson-width" /\ uiDepsChanged.lessonWidth
                      THEN StringOf(lessonWidthPct)
                      ELSE IF k = "ui-preview-width" /\ uiDepsChanged.previewWidth
                      THEN StringOf(previewWidthPct)
                      ELSE storage[k]]
    /\ uiDepsChanged' = [theme |-> FALSE, lessonWidth |-> FALSE, previewWidth |-> FALSE]
    /\ UNCHANGED <<lessonVars, theme, lessonWidthPct, previewWidthPct>>

\* prev => (prev === 'dark' ? 'light' : 'dark')
ToggledTheme(prev) == IF prev = "dark" THEN "light" ELSE "dark"

\* The theme button of the lesson view, or the key t without Ctrl, Meta or Alt
\* in any view.
toggleTheme ==
    /\ Interactive
    /\ UiSettled
    /\ theme' = ToggledTheme(theme)
    /\ uiDepsChanged' = [uiDepsChanged EXCEPT !.theme = TRUE]
    /\ UNCHANGED <<lessonVars, storage, lessonWidthPct, previewWidthPct>>

\* setLessonWidthPct / setPreviewWidthPct: a state update to the same value
\* gives no render and no effect.
SetWidth(which, next) ==
    IF which = "left"
    THEN /\ lessonWidthPct' = next
         /\ uiDepsChanged' = [uiDepsChanged EXCEPT !.lessonWidth = next # lessonWidthPct]
         /\ UNCHANGED previewWidthPct
    ELSE /\ previewWidthPct' = next
         /\ uiDepsChanged' = [uiDepsChanged EXCEPT !.previewWidth = next # previewWidthPct]
         /\ UNCHANGED lessonWidthPct

\* The updater onSplitterKeyDown passes for a splitter, an arrow key and a step.
KeyWidth(which, key, step, v) ==
    IF (which = "left") = (key = "ArrowLeft")
    THEN IF v - step < MinWidthPct THEN MinWidthPct ELSE v - step
    ELSE IF v + step > MaxWidthPct THEN MaxWidthPct ELSE v + step

\* onSplitterKeyDown(which): ArrowLeft or ArrowRight on a focused splitter,
\* with or without Shift.
onSplitterKeyDown ==
    /\ Interactive
    /\ UiSettled
    /\ View = "lesson"
    /\ \E which \in {"left", "right"}, key \in {"ArrowLeft", "ArrowRight"},
          shiftKey \in BOOLEAN :
        LET step == IF shiftKey THEN ShiftStep ELSE Step
            v == IF which = "left" THEN lessonWidthPct ELSE previewWidthPct
        IN  SetWidth(which, KeyWidth(which, key, step, v))
    /\ UNCHANGED <<lessonVars, storage, theme>>

\* startDrag(which, startEvent) and a mouse move of the drag: the width at
\* mouse-down plus (left) or minus (right) the pointer's travel in percent of
\* the container, clamped.  The travel is a whole number of percent here.
startDrag ==
    /\ Interactive
    /\ UiSettled
    /\ View = "lesson"
    /\ \E which \in {"left", "right"}, deltaPct \in -MaxDeltaPct..MaxDeltaPct :
        LET startingLesson == lessonWidthPct
            startingPreview == previewWidthPct
        IN  IF which = "left"
            THEN SetWidth(which, Clamp(startingLesson + deltaPct))
            ELSE SetWidth(which, Clamp(startingPreview - deltaPct))
    /\ UNCHANGED <<lessonVars, storage, theme>>

\* The user loads the page again: the component is constructed anew over the
\* storage as it is; messages in flight and pending callbacks go with the
\* old page.
reloadPage ==
    /\ Interactive
    /\ UiSettled
    /\ storage' = storage
    /\ lessons' = <<>>
    /\ currentLessonIndex' = 0
    /\ code' = ""
    /\ result' = <<>>
    /\ testResult' = <<>>
    /\ loading' = TRUE
    /\ error' = NoError
    /\ showHint' = FALSE
    /\ glossary' = <<>>
    /\ toFrame' = <<>>
    /\ toParent' = <<>>
    /\ fetchPc' = "pending"
    /\ glossaryPc' = "pending"
    /\ depsChanged' = [load |-> FALSE, save |-> FALSE]
    /\ lastOp' = [op |-> "none", saved |-> Null]
    /\ typed' = [i \in 0..1 |-> Null]
    /\ fetchOutcome' = "none"
    /\ \E prefersDark \in BOOLEAN :
        theme' = InitialTheme(storage["ui-theme"], prefersDark)
    /\ lessonWidthPct' = InitialWidth(storage["ui-lesson-width"])
    /\ previewWidthPct' = InitialWidth(storage["ui-preview-width"])
    /\ uiDepsChanged' = [theme |-> TRUE, lessonWidth |-> TRUE, previewWidth |-> TRUE]

Next ==
    \/ FetchLessonsSettle
    \/ FetchLessonsFinally
    \/ FetchGlossarySettle
    \/ CommitEffects
    \/ handleCodeChange
    \/ goToNextLesson
    \/ goToPreviousLesson
    \/ handleLessonSelect
    \/ handleResetCode
    \/ toggleHint
    \/ handleRunCode
    \/ frameRunScript
    \/ handleMessage

Spec == Init /\ [][Next]_vars

\* The appearance settings over page loads: a first start with an empty
\* storage, the loading of the lessons, the appearance handlers and effects,
\* and reloads of the page.
UiInit ==
    /\ LessonInit
    /\ storage = [k \in StorageKeys \cup UiKeys |-> Null]
    /\ \E prefersDark \in BOOLEAN : UiConstructed(prefersDark)

UiNext ==
    \/ FetchLessonsSettle
    \/ FetchLessonsFinally
    \/ CommitEffects
    \/ CommitUiEffects
    \/ toggleTheme
    \/ onSplitterKeyDown
    \/ startDrag
    \/ reloadPage

UiSpec == UiInit /\ [][UiNext]_vars

\* ------------------------------------------------------------------ claims

CurrentLesson == LessonAt(currentLessonIndex)

\* C1: after a navigation to a lesson, once the effects have settled, the editor
\* code is the text stored for that lesson if an entry existed (the empty string
\* included), and the lesson's initialCode if none existed.
C1_LoadsSavedOrDefault ==
    (EffectsSettled /\ lastOp.op = "nav" /\ Len(lessons) > 0)
        => code = IF lastOp.saved # Null THEN lastOp.saved
                  ELSE CurrentLesson.initialCode

\* C2: after a reset of the current lesson, once the effects have settled, the
\* storage holds no entry for the lesson and the editor code is its initialCode.
C2_ResetClearsStored ==
    (EffectsSettled /\ lastOp.op = "reset")
        => /\ storage[CodeKey(CurrentLesson)] = Null
           /\ code = CurrentLesson.initialCode

\* The user code of a script completes and every test assertion is truthy.
AllAssertionsPass(script) ==
    /\ CodeBehaviour(script.code).kind = "return"
    /\ \A i \in DOMAIN script.tests :
           AssertionOutcome(script.tests[i].assertion, script.code).kind = "truthy"

\* C3: a script of a lesson with tests whose assertions all pass posts one
\* testResults reply with passCount = totalCount, and the page, on handling a
\* testResults reply with passCount = totalCount, shows it with success status.
C3_AllPassingReportsSuccess ==
    [][/\ (frameRunScript /\ Head(toFrame).hasTests /\ AllAssertionsPass(Head(toFrame)))
            => /\ Len(toParent') = Len(toParent) + 1
               /\ LET reply == toParent'[Len(toParent')] IN
                  /\ reply.type = "testResults"
                  /\ reply.payload[1].passCount = reply.payload[1].totalCount
                  /\ reply.payload[1].totalCount = Len(Head(toFrame).tests)
       /\ (/\ handleMessage
           /\ Head(toParent).type = "testResults"
           /\ Head(toParent).payload[1].passCount = Head(toParent).payload[1].totalCount)
            => /\ testResult' = Head(toParent).payload
               /\ result' = <<>>
               /\ TestResultStatus' = "success"
               /\ ResultStatus' = ""
      ]_vars

C3_Witness ==
    /\ currentLessonIndex = 0
    /\ code = "good"
    /\ testResult # <<>>
    /\ testResult[1].passCount = 2
    /\ testResult[1].totalCount = 2
    /\ TestResultStatus = "success"

\* What the user code or the validation expression of a script throws:
\* <<message>> of the thrown error, <<>> when nothing is thrown or the thrown
\* value is no error object.
ThrownMessage(script) ==
    LET behaviour == CodeBehaviour(script.code)
        outcome == ValidationOutcome(script.validation, script.code)
    IN  IF behaviour.kind = "throw"
        THEN IF behaviour.isNull THEN <<>> ELSE <<behaviour.message>>
        ELSE IF ~script.hasTests /\ script.hasValidation /\ outcome.kind = "throw"
        THEN <<outcome.message>>
        ELSE <<>>

\* C4: when the user code or the validation expression throws an error with
\* message m, the frame posts a result message 'Error: ' + m, and the page, on
\* handling it, sets result to it and testResult to null and shows it with
\* failure status.
C4_ThrownErrorShowsFailure ==
    [][/\ (frameRunScript /\ ThrownMessage(Head(toFrame)) # <<>>)
            => toParent' = Append(toParent,
                   ResultMessage(ErrorPrefix \o ThrownMessage(Head(toFrame))[1]))
       /\ (/\ handleMessage
           /\ Head(toParent).type = "result"
           /\ SubSeq(Head(toParent).text, 1, 1) = ErrorPrefix)
            => /\ result' = Head(toParent).text
               /\ testResult' = <<>>
               /\ ResultStatus' = "failure"
      ]_vars

\* C5: a navigation to another lesson clears result and testResult and leaves
\* the messages in flight where they are; a reply is applied whatever lesson is
\* current when it is delivered: a result reply replaces result and clears
\* testResult, a testResults reply replaces testResult and clears result, and
\* the lesson index stays.
C5_ReplyAppliedUnconditionally ==
    [][/\ currentLessonIndex' # currentLessonIndex
            => /\ result' = <<>>
               /\ testResult' = <<>>
               /\ UNCHANGED <<toFrame, toParent>>
       /\ handleMessage
            => LET data == Head(toParent) IN
               /\ data.type = "result"
                    => result' = data.text /\ testResult' = <<>>
               /\ data.type = "testResults"
                    => result' = <<>> /\ testResult' = data.payload
               /\ currentLessonIndex' = currentLessonIndex
      ]_vars

\* Lesson b has no tests: the test results shown with it are those of a run
\* of lesson a, delivered after the navigation cleared the view.
C5_Witness ==
    /\ lessons = <<LessonA, LessonB>>
    /\ currentLessonIndex = 1
    /\ testResult # <<>>
    /\ result = <<>>

\* C6: a text typed while a lesson was current is the editor code again after
\* navigating away and back, when the lesson was not reset in between.
C6_TypedCodeKept ==
    (EffectsSettled /\ lastOp.op = "nav" /\ Len(lessons) > 0
        /\ typed[currentLessonIndex] # Null)
        => code = typed[currentLessonIndex]

\* C7: a Run with the frame present posts exactly one script message, an
\* executed script posts exactly one reply, of type result or testResults, and
\* no other step posts a message.
C7_OneShotExchange ==
    [][/\ (handleRunCode /\ FramePresent) => Len(toFrame') = Len(toFrame) + 1
       /\ frameRunScript
            => /\ Len(toParent') = Len(toParent) + 1
               /\ toParent'[Len(toParent')].type \in {"result", "testResults"}
       /\ Len(toFrame') > Len(toFrame) => handleRunCode
       /\ Len(toParent') > Len(toParent) => frameRunScript
      ]_vars

FetchFailed == fetchOutcome \in {"notOk", "rejected", "badJson"}

\* C8: when the lessons fetch fails, error is the fixed text and lessons stays
\* empty, the last callback of the chain is pending and can run, and once it
\* has run loading is false and the view is the error pane; error is set by
\* nothing but a failed lessons fetch.
C8_FetchFailureShowsError ==
    /\ FetchFailed
        => /\ error = FailedToLoad
           /\ lessons = <<>>
           /\ \/ fetchPc = "finally" /\ ENABLED FetchLessonsFinally
              \/ fetchPc = "done" /\ ~loading /\ View = "error"
    /\ error # NoError => FetchFailed

C8_Witness ==
    /\ FetchFailed
    /\ fetchPc = "done"
    /\ glossaryPc = "done"
    /\ View = "error"

FetchedNoLessons == fetchOutcome = "ok" /\ lessons = <<>>

\* C9: when the lessons fetch succeeds with an empty array, the last callback
\* of the chain is pending and can run, and once it has run loading is false,
\* error is null and the view is the empty-state pane; in that view Run, Reset,
\* Next and Previous can be taken (once the effects of the render have run) and
\* change nothing.
C9_NoLessonsShowsEmptyState ==
    /\ FetchedNoLessons
        => /\ error = NoError
           /\ \/ fetchPc = "finally" /\ ENABLED FetchLessonsFinally
              \/ fetchPc = "done" /\ ~loading /\ View = "empty"
    /\ (View = "empty" /\ Interactive)
        => /\ ENABLED handleRunCode
           /\ ENABLED handleResetCode
           /\ ENABLED goToNextLesson
           /\ ENABLED goToPreviousLesson
           /\ ~ENABLED (handleRunCode /\ vars' # vars)
           /\ ~ENABLED (handleResetCode /\ vars' # vars)
           /\ ~ENABLED (goToNextLesson /\ vars' # vars)
           /\ ~ENABLED (goToPreviousLesson /\ vars' # vars)

C9_Witness ==
    /\ FetchedNoLessons
    /\ fetchPc = "done"
    /\ View = "empty"

\* C10: a click on the hint button negates showHint and changes nothing else,
\* and showHint changes in no step but a click or a lesson navigation.
C10_HintToggle ==
    [][/\ toggleHint
            => /\ showHint' = ~showHint
               /\ UNCHANGED <<lessons, currentLessonIndex, code, result, testResult,
                              loading, error, glossary, storage, toFrame, toParent>>
       /\ showHint' # showHint
            => toggleHint \/ goToNextLesson \/ goToPreviousLesson \/ handleLessonSelect
      ]_vars

C10_Witness ==
    /\ showHint
    /\ View = "lesson"
    /\ result # <<>>

\* C11: whenever the appearance effects have run, the storage holds the current
\* theme under 'ui-theme' and the two widths, as strings, under
\* 'ui-lesson-width' and 'ui-preview-width'; a theme toggle switches between
\* 'dark' and 'light'; and a page load over a stored 'dark' or 'light' starts
\* with that theme, whatever the system colour scheme.
C11_AppearancePersisted ==
    /\ [](UiSettled
            => /\ storage["ui-theme"] = theme
               /\ storage["ui-lesson-width"] = StringOf(lessonWidthPct)
               /\ storage["ui-preview-width"] = StringOf(previewWidthPct))
    /\ [][/\ toggleTheme
                => /\ theme \in {"dark", "light"}
                   /\ theme' \in {"dark", "light"}
                   /\ theme' # theme
          /\ (reloadPage /\ storage["ui-theme"] \in {"dark", "light"})
                => theme' = storage["ui-theme"]
         ]_vars

\* A page load over a stored light theme and a stored lesson width of 15.
C11_Witness ==
    /\ ~Mounted
    /\ storage["ui-theme"] = "light"
    /\ theme = "light"
    /\ storage["ui-lesson-width"] = "15"
    /\ lessonWidthPct = 15

\* C12: a testResults reply to a script carries totalCount = the number of the
\* script's tests, one details entry per test, in the order and under the
\* names of the tests, and passCount = the number of entries with passed true
\* (at most totalCount); the entry of an assertion that throws has passed
\* false and the thrown message as error, and the entries after it are there.
C12_TestResultsWellFormed ==
    [][frameRunScript
        => LET script == Head(toFrame) IN
           \A n \in (Len(toParent) + 1)..Len(toParent') :
               toParent'[n].type = "testResults"
                => LET payload == toParent'[n].payload[1]
                       details == payload.details
                   IN  /\ payload.totalCount = Len(script.tests)
                       /\ Len(details) = Len(script.tests)
                       /\ \A i \in DOMAIN details :
                           /\ details[i].name = script.tests[i].name
                           /\ LET outcome == AssertionOutcome(script.tests[i].assertion,
                                                              script.code)
                              IN  outcome.kind = "throw"
                                   => /\ details[i].passed = FALSE
                                      /\ details[i].error = outcome.message
                       /\ payload.passCount
                            = Cardinality({i \in DOMAIN details : details[i].passed})
                       /\ payload.passCount <= payload.totalCount
      ]_vars

\* The results of a run of lesson a in which both assertions threw.
C12_Witness ==
    /\ testResult # <<>>
    /\ testResult[1].totalCount = 2
    /\ Len(testResult[1].details) = 2
    /\ testResult[1].details[1].error # <<>>
    /\ testResult[1].details[2].error # <<>>
    /\ testResult[1].passCount = 0

\* The replies a step of the frame appends to the queue of the page.
NewReplies == SubSeq(toParent', Len(toParent) + 1, Len(toParent'))

\* Whether the validation expression of a script returns a truthy value.
ValidationReturnsTruthy(script) ==
    /\ script.hasValidation
    /\ ValidationOutcome(script.validation, script.code).kind = "truthy"

C14_OnlyCurrentEntryWritten ==
    [][/\ \A k \in StorageKeys :
            storage'[k] # storage[k]
                => /\ Len(lessons) > 0
                   /\ k = CodeKey(CurrentLesson)
                   /\ currentLessonIndex' = currentLessonIndex
       /\ (currentLessonIndex' # currentLessonIndex /\ lastOp.op # "reset")
            => storage[CodeKey(CurrentLesson)] = code
      ]_vars

\* Lesson b is current and has an entry of its own; the entry of lesson a is
\* the text typed there before it was left.
C14_Witness ==
    /\ lessons = <<LessonA, LessonB>>
    /\ currentLessonIndex = 1
    /\ typed[0] = "good"
    /\ storage[CodeKey(LessonA)] = "good"
    /\ typed[1] = "throwS"
    /\ storage[CodeKey(LessonB)] = "throwS"

Cleared == result = <<>> /\ testResult = <<>> /\ showHint = FALSE

\* C15: whenever a user event can be handled: Next below the last lesson,
\* Previous above the first and every dropdown selection can be taken, and
\* every such step leaves result empty, testResult null and showHint false,
\* with the index at the next, previous or selected lesson; Next on the last
\* lesson and Previous on the first can be taken and change nothing.
C15_NavigationClears ==
    (Interactive /\ View = "lesson")
        => /\ currentLessonIndex < Len(lessons) - 1
                => /\ ENABLED goToNextLesson
                   /\ ~ENABLED (goToNextLesson
                                 /\ ~(Cleared'
                                       /\ currentLessonIndex' = currentLessonIndex + 1))
           /\ currentLessonIndex > 0
                => /\ ENABLED goToPreviousLesson
                   /\ ~ENABLED (goToPreviousLesson
                                 /\ ~(Cleared'
                                       /\ currentLessonIndex' = currentLessonIndex - 1))
           /\ \A i \in 0..(Len(lessons) - 1) :
                /\ ENABLED (handleLessonSelect /\ currentLessonIndex' = i)
                /\ ~ENABLED (handleLessonSelect /\ currentLessonIndex' = i /\ ~Cleared')
           /\ currentLessonIndex = Len(lessons) - 1
                => /\ ENABLED goToNextLesson
                   /\ ~ENABLED (goToNextLesson /\ vars' # vars)
           /\ currentLessonIndex = 0
                => /\ ENABLED goToPreviousLesson
                   /\ ~ENABLED (goToPreviousLesson /\ vars' # vars)

\* The second of two lessons is current with test results, a result text or
\* the hint on display: Previous clears them, Next changes nothing.
C15_Witness ==
    /\ Interactive
    /\ View = "lesson"
    /\ Len(lessons) = 2
    /\ currentLessonIndex = 1
    /\ testResult # <<>>
    /\ showHint

\* C16: the index is never negative; while no lesson is loaded (still loading,
\* failed, or an empty list) it is 0, and with lessons loaded it is at most
\* lessons.length - 1.
C16_IndexInRange ==
    /\ currentLessonIndex >= 0
    /\ Len(lessons) = 0 => currentLessonIndex = 0
    /\ Len(lessons) > 0 => currentLessonIndex <= Len(lessons) - 1

\* The last of two lessons is current after a navigation.
C16_Witness ==
    /\ Len(lessons) = 2
    /\ currentLessonIndex = Len(lessons) - 1
    /\ lastOp.op = "nav"
    /\ Interactive

\* C17: in every state the result text is empty or the test result is null.
C17_OneResultShown == result = <<>> \/ testResult = <<>>

\* Test results are on display and a result reply is about to be delivered.
C17_Witness ==
    /\ testResult # <<>>
    /\ toParent # <<>>
    /\ Head(toParent).type = "result"

\* C18: with lessons loaded and no effect pending, the entry of the current
\* lesson is the editor code, or it is absent and the editor code is the
\* lesson's initialCode; so, when the editor code is not empty, what the load
\* effect of a new page load computes for the lesson from the storage is the
\* editor code.
C18_CurrentEntryMatchesEditor ==
    (EffectsSettled /\ Len(lessons) > 0)
        => /\ \/ storage[CodeKey(CurrentLesson)] = code
              \/ /\ storage[CodeKey(CurrentLesson)] = Null
                 /\ code = CurrentLesson.initialCode
           /\ code # ""
                => LoadedCode(storage[CodeKey(CurrentLesson)], CurrentLesson) = code

\* After a Reset that did not change the code: the entry is absent and the
\* editor holds the non-empty initialCode.
C18_Witness ==
    /\ EffectsSettled
    /\ Len(lessons) > 0
    /\ lastOp.op = "reset"
    /\ storage[CodeKey(CurrentLesson)] = Null
    /\ code = CurrentLesson.initialCode
    /\ code # ""

\* C19: in every state, a page load over stored widths included, both pane
\* widths are within 15..45, so their sum is at most 90.
C19_WidthsWithinLimits ==
    /\ lessonWidthPct \in MinWidthPct..MaxWidthPct
    /\ previewWidthPct \in MinWidthPct..MaxWidthPct
    /\ lessonWidthPct + previewWidthPct <= 2 * MaxWidthPct
    /\ 100 - (lessonWidthPct + previewWidthPct) >= 100 - 2 * MaxWidthPct

\* A page load over the stored widths 45 and 15, the two limits.
C19_Witness ==
    /\ ~Mounted
    /\ storage["ui-lesson-width"] = StringOf(MaxWidthPct)
    /\ storage["ui-preview-width"] = StringOf(MinWidthPct)
    /\ lessonWidthPct = MaxWidthPct
    /\ previewWidthPct = MinWidthPct

\* The callbacks of a settled promise run: the finally callback of the lessons
\* fetch is a microtask queued when the then/catch callback returns.
FairSpec == Spec /\ WF_vars(FetchLessonsFinally)

\* C8, the progress part read literally: a failed lessons fetch leads to the
\* error pane.
C8_Eventually == FetchFailed ~> (View = "error")

\* C9, the progress part read literally: a lessons fetch that returned an empty
\* array leads to the empty-state pane.
C9_Eventually == FetchedNoLessons ~> (View = "empty")

====
